---- MODULE Spec2Model ----
(***************************************************************************)
(* The Postgresql reconciler of pg-simple-operator                         *)
(* (controllers/postgresql_controller.go) against an API server that keeps *)
(* Postgresql records and Pods keyed by (namespace, name).                 *)
(*                                                                         *)
(* One action per store call of Reconcile: every r.Get / r.Create /        *)
(* r.Status().Update / r.Update / r.Delete is one atomic step that either  *)
(* succeeds or fails, so other actors (the user, the kubelet, another      *)
(* controller, the dispatcher abandoning the invocation) interleave        *)
(* between any two calls.                                                  *)
(***************************************************************************)
EXTENDS Naturals, FiniteSets, Sequences, TLC

VARIABLES
    records,    \* API server: the Postgresql object of every identity
    pods,       \* API server: the Pods at every identity
    inv,        \* the Reconcile invocation of every identity (locals, position)
    faults,     \* transient store failures and abandoned invocations so far
    win,        \* observer: the last two invocations that began on an Active
                \* record without a child
    obs         \* observer: the store as the current (or last) invocation found
                \* it, the store calls it issued, and whether it ran undisturbed

vars == <<records, pods, inv, faults, win, obs>>

----------------------------------------------------------------------------
(* Bounds and constants *)

\* How many transient store failures / abandoned invocations a behaviour has.
MaxFaults == 2

\* time.Second * 5, the requeue delay of the Active path.
RequeueSeconds == 5

\* The identities (namespace, name) of the store; Spec runs the ones in MainIds.
Ids == {"pg1", "pg2"}
MainIds == {"pg1"}

postgresImage == "postgres:14.5"
postgresqlFinalizer == "database.db.example.com/finalizer"
\* A finalizer token that belongs to some other controller.
otherFinalizer == "other.example.com/finalizer"

PgUp == "up"
PgPending == "pending"
PgFailed == "Failed"
\* The zero value of PgPhase / v1.PodPhase: the field was never set.
Unset == ""

PgPhases == {PgUp, PgPending, PgFailed}

\* v1.PodPhase: the five phases of the API, and the unset phase of a Pod whose
\* status nobody has written.
PodPhases == {"Pending", "Running", "Succeeded", "Failed", "Unknown", Unset}

----------------------------------------------------------------------------
(* Pure functions *)

\* DerivePhase without the default branch: an unmapped phase leaves the
\* record's phase as it is named by the Pod.
DerivePhase_NoDefault(podPhase) ==
    CASE podPhase = "Pending" -> PgPending
      [] podPhase = "Running" -> PgUp
      [] OTHER -> podPhase

\* switch pod.Status.Phase { case PodPending / case PodRunning / default }.
DerivePhase(podPhase) ==
    CASE podPhase = "Pending" -> PgPending
      [] podPhase = "Running" -> PgUp
      [] OTHER -> PgFailed

getPodName(pg) == pg.name

\* GetPodNamespacedName that names one Pod for every record.
GetPodNamespacedName_OneName(pg) == "pg1"

GetPodNamespacedName(pg) == getPodName(pg)

\* createPodSpec that binds a fixed password instead of the record's.
createPodSpec_FixedPassword(db) ==
    [ containerName |-> getPodName(db),
      image         |-> postgresImage,
      containerPort |-> 5432,
      env           |-> << <<"POSTGRES_PASSWORD", "password1!">>,
                           <<"PGDATA", "/data/pgdata">> >>,
      volumeMounts  |-> << <<"postgresql-db-disk", "/data">> >>,
      volumes       |-> << "postgresql-db-disk" >> ]

createPodSpec(db) ==
    [ containerName |-> getPodName(db),
      image         |-> postgresImage,
      containerPort |-> 5432,
      env           |-> << <<"POSTGRES_PASSWORD", db.spec.Password>>,
                           <<"PGDATA", "/data/pgdata">> >>,
      volumeMounts  |-> << <<"postgresql-db-disk", "/data">> >>,
      volumes       |-> << "postgresql-db-disk" >> ]

objectDeleting(pg) == pg.deleting

ContainsFinalizer(pg, token) == token \in pg.finalizers

AddFinalizer(pg, token) == [pg EXCEPT !.finalizers = @ \cup {token}]

RemoveFinalizer(pg, token) == [pg EXCEPT !.finalizers = @ \ {token}]

\* The fields of PostgresqlStatus with their json tags, in declaration order.
StatusFields ==
    << [field |-> "Phase",  tag |-> "active", omitempty |-> TRUE],
       [field |-> "Active", tag |-> "active", omitempty |-> TRUE] >>

\* encoding/json: of several fields of one struct level that carry the same
\* json name none is marshalled or unmarshalled, and no error is reported.
Marshalled(i) ==
    \A j \in DOMAIN StatusFields :
        j # i => StatusFields[j].tag # StatusFields[i].tag

\* The JSON object written for a PostgresqlStatus: a set of <<key, value>>.
EncodeStatus(status) ==
    { <<StatusFields[i].tag, status[StatusFields[i].field]>> :
        i \in { j \in DOMAIN StatusFields :
                  /\ Marshalled(j)
                  /\ ~(StatusFields[j].omitempty
                       /\ status[StatusFields[j].field] = Unset) } }

\* The PostgresqlStatus read back from a JSON object.
DecodeStatus(json) ==
    [ f \in { StatusFields[i].field : i \in DOMAIN StatusFields } |->
        LET i  == CHOOSE j \in DOMAIN StatusFields : StatusFields[j].field = f
            kv == { p \in json : p[1] = StatusFields[i].tag }
        IN  IF Marshalled(i) /\ kv # {}
              THEN (CHOOSE p \in kv : TRUE)[2]
              ELSE Unset ]

NoStatus == [Phase |-> Unset, Active |-> Unset]

----------------------------------------------------------------------------
(* The store *)

\* No Postgresql object at an identity.
NoRecord ==
    [ exists |-> FALSE, deleting |-> FALSE, finalizers |-> {},
      status |-> NoStatus, spec |-> [DefaultUser |-> Unset, Password |-> Unset] ]

\* The object the test creates: kubectl-style create of a Postgresql.
NewRecord(id, fins) ==
    [ exists |-> TRUE, deleting |-> FALSE, finalizers |-> fins,
      status |-> NoStatus,
      spec |-> [DefaultUser |-> "pguser", Password |-> "password1!"] ]

\* No Pod at an identity: n counts the Pods the store holds there.
NoPod ==
    [ n |-> 0, phase |-> Unset,
      spec |-> createPodSpec([name |-> Unset, spec |-> NoRecord.spec]) ]

podExists(id) == pods[id].n > 0

\* The API server removes a terminating object once its finalizers are empty.
Settle(rec) ==
    IF rec.exists /\ rec.deleting /\ rec.finalizers = {} THEN NoRecord ELSE rec

\* The invocation's locals before it has read anything.
NoPg == [name |-> Unset, deleting |-> FALSE, finalizers |-> {},
         status |-> NoStatus, spec |-> NoRecord.spec]

\* ctrl.Result and error, as Reconcile returns them.
Result(after, err) == [requeueAfter |-> after, err |-> err]

NoResult == [requeueAfter |-> 0, err |-> FALSE]

\* pc is the store call the invocation is about to make; exit names the return
\* statement the last invocation left by.
Idle ==
    [ pc |-> "idle", pg |-> NoPg, stale |-> FALSE,
      podFound |-> FALSE, podPhase |-> Unset,
      statusOk |-> FALSE, res |-> NoResult, exit |-> "none" ]

NoWindow == [on |-> FALSE, runs |-> 0, creates |-> 0, quiet |-> TRUE, nofault |-> TRUE]

----------------------------------------------------------------------------
(* Observer bookkeeping *)

\* An invocation begins: open a window when the record is Active and has no child.
WinStart(id) ==
    IF win[id].on /\ win[id].runs < 2
      THEN win[id]
      ELSE IF records[id].exists /\ ~records[id].deleting /\ ~podExists(id)
             THEN [NoWindow EXCEPT !.on = TRUE]
             ELSE NoWindow

\* An invocation returns.
WinReturn(w) == IF w.on /\ w.runs < 2 THEN [w EXCEPT !.runs = @ + 1] ELSE w

\* A Pod was created by the invocation.
WinCreate(w) == IF w.on THEN [w EXCEPT !.creates = @ + 1] ELSE w

\* A store call failed, or the invocation was abandoned.
WinFault(w) == IF w.on THEN [w EXCEPT !.nofault = FALSE] ELSE w

\* Somebody else deleted the Pod or asked for the record's deletion.
WinOther(w) == IF w.on THEN [w EXCEPT !.quiet = FALSE] ELSE w

\* The store at one identity.
Store(rec, pod) == [rec |-> rec, pod |-> pod]

NoObs == [start |-> Store(NoRecord, NoPod), clean |-> TRUE, calls |-> <<>>]

\* An invocation begins: remember the store it starts from.
ObsStart(id) == [start |-> Store(records[id], pods[id]), clean |-> TRUE, calls |-> <<>>]

\* The invocation issues a store call, which succeeds (not-found included).
ObsCall(o, call) == [o EXCEPT !.calls = Append(@, call)]

\* The invocation is abandoned, or somebody else writes to the store: the
\* invocation no longer counts as undisturbed, and its start is forgotten.
ObsDisturbed(o) == [o EXCEPT !.clean = FALSE, !.start = Store(NoRecord, NoPod)]

\* The invocation issues a store call, which fails.
ObsFailedCall(o, call) == ObsDisturbed(ObsCall(o, call))

----------------------------------------------------------------------------
(* Initial state: the user has created the record; nothing has run yet. *)

Init ==
    /\ \E fins \in {{}, {otherFinalizer}} :
          records = [id \in Ids |->
                        IF id \in MainIds THEN NewRecord(id, fins) ELSE NoRecord]
    /\ pods = [id \in Ids |-> NoPod]
    /\ inv = [id \in Ids |-> Idle]
    /\ faults = 0
    /\ win = [id \in Ids |-> NoWindow]
    /\ obs = [id \in Ids |-> NoObs]

----------------------------------------------------------------------------
(* Store calls: what the API server does with a request *)

\* A write of the Postgresql object is accepted when the object still exists and
\* the caller's copy carries the stored resourceVersion (nothing wrote since).
WriteAccepted(id) == records[id].exists /\ ~inv[id].stale

\* POST of a Pod: rejected (AlreadyExists) when the name is taken; the created
\* Pod starts in phase Pending.
PodCreated(pod, spec) == [n |-> pod.n + 1, phase |-> "Pending", spec |-> spec]

\* DELETE of a Pod.
PodDeleted(pod) == IF pod.n > 1 THEN [pod EXCEPT !.n = @ - 1] ELSE NoPod

\* Every writer but the invocation itself makes the invocation's copy stale.
MarkStale(i) ==
    IF i.pc \in {"idle", "getPg"} THEN i ELSE [i EXCEPT !.stale = TRUE]

\* A transient failure of a store call is possible.
CanFault == faults < MaxFaults

Return(i, res, exit) == [i EXCEPT !.pc = "idle", !.res = res, !.exit = exit]

----------------------------------------------------------------------------
(* The dispatcher *)

\* An event for the record or its Pod, or the requeue delay has elapsed.
Start(id) ==
    /\ inv[id].pc = "idle"
    /\ inv' = [inv EXCEPT ![id] = [Idle EXCEPT !.pc = "getPg"]]
    /\ win' = [win EXCEPT ![id] = WinStart(id)]
    /\ UNCHANGED <<records, pods, faults>>
    /\ obs' = [obs EXCEPT ![id] = ObsStart(id)]

\* The dispatcher gives up an invocation between two store calls.
Abandon(id) ==
    /\ inv[id].pc \notin {"idle", "getPg"}
    /\ CanFault
    /\ faults' = faults + 1
    /\ inv' = [inv EXCEPT ![id] = Return(@, NoResult, "abandoned")]
    /\ win' = [win EXCEPT ![id] = WinReturn(WinFault(@))]
    /\ UNCHANGED <<records, pods>>
    /\ obs' = [obs EXCEPT ![id] = ObsDisturbed(@)]

----------------------------------------------------------------------------
(* Reconcile, one action per store call and outcome *)

\* r.Get(ctx, req.NamespacedName, &pg) finds the record.
GetPgOk(id) ==
    /\ inv[id].pc = "getPg"
    /\ records[id].exists
    /\ inv' = [inv EXCEPT ![id] =
                  [@ EXCEPT !.pc = "getPod",
                            !.stale = FALSE,
                            !.pg = [ name       |-> id,
                                     deleting   |-> records[id].deleting,
                                     finalizers |-> records[id].finalizers,
                                     status     |-> records[id].status,
                                     spec       |-> records[id].spec ]]]
    /\ UNCHANGED <<records, pods, faults, win>>
    /\ obs' = [obs EXCEPT ![id] = ObsCall(@, "get pg")]

\* GetPgNotFound without client.IgnoreNotFound: not-found is returned as an error.
GetPgNotFound_ReturnsError(id) ==
    /\ inv[id].pc = "getPg"
    /\ ~records[id].exists
    /\ inv' = [inv EXCEPT ![id] = Return(@, Result(0, TRUE), "noRecord")]
    /\ win' = [win EXCEPT ![id] = WinReturn(@)]
    /\ obs' = [obs EXCEPT ![id] = ObsCall(@, "get pg")]
    /\ UNCHANGED <<records, pods, faults>>

\* ... reports not-found: return ctrl.Result{}, client.IgnoreNotFound(err).
GetPgNotFound(id) ==
    /\ inv[id].pc = "getPg"
    /\ ~records[id].exists
    /\ inv' = [inv EXCEPT ![id] = Return(@, Result(0, FALSE), "noRecord")]
    /\ win' = [win EXCEPT ![id] = WinReturn(@)]
    /\ UNCHANGED <<records, pods, faults>>
    /\ obs' = [obs EXCEPT ![id] = ObsCall(@, "get pg")]

\* ... fails otherwise: the error is returned.
GetPgFail(id) ==
    /\ inv[id].pc = "getPg"
    /\ CanFault
    /\ faults' = faults + 1
    /\ inv' = [inv EXCEPT ![id] = Return(@, Result(0, TRUE), "getPgFail")]
    /\ win' = [win EXCEPT ![id] = WinReturn(WinFault(@))]
    /\ UNCHANGED <<records, pods>>
    /\ obs' = [obs EXCEPT ![id] = ObsFailedCall(@, "get pg")]

\* GetPodFound that brings the spec of the Pod it found back to what the record
\* would build.
GetPodFound_RepairsDrift(id) ==
    /\ inv[id].pc = "getPod"
    /\ podExists(id)
    /\ inv' = [inv EXCEPT ![id] =
                  [@ EXCEPT !.pc = "statusUpdate",
                            !.podFound = TRUE,
                            !.podPhase = pods[id].phase]]
    /\ pods' = [pods EXCEPT ![id] = [@ EXCEPT !.spec = createPodSpec(inv[id].pg)]]
    /\ UNCHANGED <<records, faults, win>>
    /\ obs' = [obs EXCEPT ![id] = ObsCall(@, "get pod")]

\* GetPodFound that goes on to create a Pod although the lookup found one.
GetPodFound_CreatesAnyway(id) ==
    /\ inv[id].pc = "getPod"
    /\ podExists(id)
    /\ inv' = [inv EXCEPT ![id] =
                  [@ EXCEPT !.pc = "createPod",
                            !.podFound = TRUE,
                            !.podPhase = pods[id].phase]]
    /\ UNCHANGED <<records, pods, faults, win>>
    /\ obs' = [obs EXCEPT ![id] = ObsCall(@, "get pod")]

\* r.Get(ctx, req.NamespacedName, &pod) finds the Pod.
GetPodFound(id) ==
    /\ inv[id].pc = "getPod"
    /\ podExists(id)
    /\ inv' = [inv EXCEPT ![id] =
                  [@ EXCEPT !.pc = "statusUpdate",
                            !.podFound = TRUE,
                            !.podPhase = pods[id].phase]]
    /\ UNCHANGED <<records, pods, faults, win>>
    /\ obs' = [obs EXCEPT ![id] = ObsCall(@, "get pod")]

\* GetPodNotFound that treats not-found like any other lookup error and returns.
GetPodNotFound_Returns(id) ==
    /\ inv[id].pc = "getPod"
    /\ ~podExists(id)
    /\ inv' = [inv EXCEPT ![id] = Return(@, Result(0, TRUE), "getPodFail")]
    /\ win' = [win EXCEPT ![id] = WinReturn(@)]
    /\ UNCHANGED <<records, pods, faults>>
    /\ obs' = [obs EXCEPT ![id] = ObsCall(@, "get pod")]

\* ... reports not-found: a Pod is to be created.
GetPodNotFound(id) ==
    /\ inv[id].pc = "getPod"
    /\ ~podExists(id)
    /\ inv' = [inv EXCEPT ![id] = [@ EXCEPT !.pc = "createPod"]]
    /\ UNCHANGED <<records, pods, faults, win>>
    /\ obs' = [obs EXCEPT ![id] = ObsCall(@, "get pod")]

\* GetPodFail that takes every error of the lookup for not-found and creates.
GetPodFail_GoesOnToCreate(id) ==
    /\ inv[id].pc = "getPod"
    /\ CanFault
    /\ faults' = faults + 1
    /\ inv' = [inv EXCEPT ![id] = [@ EXCEPT !.pc = "createPod"]]
    /\ win' = [win EXCEPT ![id] = WinFault(@)]
    /\ UNCHANGED <<records, pods>>
    /\ obs' = [obs EXCEPT ![id] = ObsFailedCall(@, "get pod")]

\* ... fails otherwise: return ctrl.Result{}, err.
GetPodFail(id) ==
    /\ inv[id].pc = "getPod"
    /\ CanFault
    /\ faults' = faults + 1
    /\ inv' = [inv EXCEPT ![id] = Return(@, Result(0, TRUE), "getPodFail")]
    /\ win' = [win EXCEPT ![id] = WinReturn(WinFault(@))]
    /\ UNCHANGED <<records, pods>>
    /\ obs' = [obs EXCEPT ![id] = ObsFailedCall(@, "get pod")]

\* r.Create(ctx, &pod) succeeds; pod now holds the created object.
CreatePodOk(id) ==
    /\ inv[id].pc = "createPod"
    /\ ~podExists(id)
    /\ pods' = [pods EXCEPT ![id] = PodCreated(@, createPodSpec(inv[id].pg))]
    /\ inv' = [inv EXCEPT ![id] =
                  [@ EXCEPT !.pc = "statusUpdate",
                            !.podPhase = pods'[id].phase]]
    /\ win' = [win EXCEPT ![id] = WinCreate(@)]
    /\ UNCHANGED <<records, faults>>
    /\ obs' = [obs EXCEPT ![id] = ObsCall(@, "create pod")]

\* CreatePodFail that reports the failed create as an error, like the lookups.
CreatePodFail_ReturnsError(id) ==
    /\ inv[id].pc = "createPod"
    /\ podExists(id) \/ CanFault
    /\ faults' = IF podExists(id) THEN faults ELSE faults + 1
    /\ inv' = [inv EXCEPT ![id] = Return(@, Result(0, TRUE), "createFail")]
    /\ win' = [win EXCEPT ![id] = WinReturn(WinFault(@))]
    /\ obs' = [obs EXCEPT ![id] = ObsFailedCall(@, "create pod")]
    /\ UNCHANGED <<records, pods>>

\* ... fails: return ctrl.Result{RequeueAfter: time.Second * 5}, nil.
CreatePodFail(id) ==
    /\ inv[id].pc = "createPod"
    /\ podExists(id) \/ CanFault
    /\ faults' = IF podExists(id) THEN faults ELSE faults + 1
    /\ inv' = [inv EXCEPT ![id] =
                  Return(@, Result(RequeueSeconds, FALSE), "createFail")]
    /\ win' = [win EXCEPT ![id] = WinReturn(WinFault(@))]
    /\ UNCHANGED <<records, pods>>
    /\ obs' = [obs EXCEPT ![id] = ObsFailedCall(@, "create pod")]

\* The switch over pod.Status.Phase.
WithDerivedStatus(i) == [i EXCEPT !.pg.status.Phase = DerivePhase(i.podPhase)]

\* r.Status().Update(ctx, &pg) succeeds: the server stores the status it was sent.
StatusUpdateOk(id) ==
    /\ inv[id].pc = "statusUpdate"
    /\ WriteAccepted(id)
    /\ LET i == WithDerivedStatus(inv[id]) IN
          /\ records' = [records EXCEPT ![id] =
                            [@ EXCEPT !.status =
                                 DecodeStatus(EncodeStatus(i.pg.status))]]
          /\ inv' = [inv EXCEPT ![id] =
                        [i EXCEPT !.pc = "registerFinalizer", !.statusOk = TRUE]]
    /\ UNCHANGED <<pods, faults, win>>
    /\ obs' = [obs EXCEPT ![id] = ObsCall(@, "update status")]

\* StatusUpdateFail that returns the error of r.Status().Update.
StatusUpdateFail_ReturnsError(id) ==
    /\ inv[id].pc = "statusUpdate"
    /\ ~WriteAccepted(id) \/ CanFault
    /\ faults' = IF WriteAccepted(id) THEN faults + 1 ELSE faults
    /\ inv' = [inv EXCEPT ![id] =
                  Return(WithDerivedStatus(@), Result(0, TRUE), "statusFail")]
    /\ win' = [win EXCEPT ![id] = WinReturn(WinFault(@))]
    /\ UNCHANGED <<records, pods>>
    /\ obs' = [obs EXCEPT ![id] = ObsFailedCall(@, "update status")]

\* ... fails (conflict, not-found, transient): the error is dropped.
StatusUpdateFail(id) ==
    /\ inv[id].pc = "statusUpdate"
    /\ ~WriteAccepted(id) \/ CanFault
    /\ faults' = IF WriteAccepted(id) THEN faults + 1 ELSE faults
    /\ inv' = [inv EXCEPT ![id] =
                  [WithDerivedStatus(@) EXCEPT !.pc = "registerFinalizer"]]
    /\ win' = [win EXCEPT ![id] = WinFault(@)]
    /\ UNCHANGED <<records, pods>>
    /\ obs' = [obs EXCEPT ![id] = ObsFailedCall(@, "update status")]

\* AfterRegister without the terminating branch: every invocation requeues.
AfterRegister_NoTerminatingBranch(i) ==
    Return(i, Result(RequeueSeconds, FALSE), "requeue")

\* AfterRegister whose Active path returns ctrl.Result{} without a requeue delay.
AfterRegister_NoRequeue(i) ==
    IF objectDeleting(i.pg)
      THEN [i EXCEPT !.pc = IF ContainsFinalizer(i.pg, postgresqlFinalizer)
                              THEN "delGetPod" ELSE "removeFinalizer"]
      ELSE Return(i, Result(0, FALSE), "requeue")

\* Where Reconcile goes after registerFinalizer returned no error.
AfterRegister(i) ==
    IF objectDeleting(i.pg)
      THEN [i EXCEPT !.pc = IF ContainsFinalizer(i.pg, postgresqlFinalizer)
                              THEN "delGetPod" ELSE "removeFinalizer"]
      ELSE Return(i, Result(RequeueSeconds, FALSE), "requeue")

\* registerFinalizer has nothing to write: the record is terminating or already
\* carries the token.
RegisterSkip(id) ==
    /\ inv[id].pc = "registerFinalizer"
    /\ objectDeleting(inv[id].pg)
         \/ ContainsFinalizer(inv[id].pg, postgresqlFinalizer)
    /\ inv' = [inv EXCEPT ![id] = AfterRegister(@)]
    /\ win' = [win EXCEPT ![id] =
                  IF inv'[id].pc = "idle" THEN WinReturn(@) ELSE @]
    /\ UNCHANGED <<records, pods, faults>>
    /\ UNCHANGED obs

\* RegisterOk without the check of the deletion marker.
RegisterOk_EvenWhenDeleting(id) ==
    /\ inv[id].pc = "registerFinalizer"
    /\ ~ContainsFinalizer(inv[id].pg, postgresqlFinalizer)
    /\ WriteAccepted(id)
    /\ LET pg == AddFinalizer(inv[id].pg, postgresqlFinalizer) IN
          /\ records' = [records EXCEPT ![id] =
                            Settle([@ EXCEPT !.finalizers = pg.finalizers])]
          /\ inv' = [inv EXCEPT ![id] = AfterRegister([@ EXCEPT !.pg = pg])]
    /\ win' = [win EXCEPT ![id] = WinReturn(@)]
    /\ UNCHANGED <<pods, faults>>
    /\ obs' = [obs EXCEPT ![id] = ObsCall(@, "update pg")]

\* registerFinalizer adds the token and r.Update(ctx, pg) succeeds.
RegisterOk(id) ==
    /\ inv[id].pc = "registerFinalizer"
    /\ ~objectDeleting(inv[id].pg)
    /\ ~ContainsFinalizer(inv[id].pg, postgresqlFinalizer)
    /\ WriteAccepted(id)
    /\ LET pg == AddFinalizer(inv[id].pg, postgresqlFinalizer) IN
          /\ records' = [records EXCEPT ![id] =
                            Settle([@ EXCEPT !.finalizers = pg.finalizers])]
          /\ inv' = [inv EXCEPT ![id] = AfterRegister([@ EXCEPT !.pg = pg])]
    /\ win' = [win EXCEPT ![id] = WinReturn(@)]
    /\ UNCHANGED <<pods, faults>>
    /\ obs' = [obs EXCEPT ![id] = ObsCall(@, "update pg")]

\* ... r.Update fails: return result, err.
RegisterFail(id) ==
    /\ inv[id].pc = "registerFinalizer"
    /\ ~objectDeleting(inv[id].pg)
    /\ ~ContainsFinalizer(inv[id].pg, postgresqlFinalizer)
    /\ ~WriteAccepted(id) \/ CanFault
    /\ faults' = IF WriteAccepted(id) THEN faults + 1 ELSE faults
    /\ inv' = [inv EXCEPT ![id] = Return(@, Result(0, TRUE), "registerFail")]
    /\ win' = [win EXCEPT ![id] = WinReturn(WinFault(@))]
    /\ UNCHANGED <<records, pods>>
    /\ obs' = [obs EXCEPT ![id] = ObsFailedCall(@, "update pg")]

----------------------------------------------------------------------------
(* deleteExternalResources, entered when objectDeleting(&pg) *)

\* DelGetPodFound that goes on to release the token without deleting the Pod.
DelGetPodFound_SkipsDelete(id) ==
    /\ inv[id].pc = "delGetPod"
    /\ podExists(GetPodNamespacedName(inv[id].pg))
    /\ inv' = [inv EXCEPT ![id] = [@ EXCEPT !.pc = "removeFinalizer"]]
    /\ obs' = [obs EXCEPT ![id] = ObsCall(@, "get pod")]
    /\ UNCHANGED <<records, pods, faults, win>>

\* r.Get(ctx, GetPodNamespacedName(*pg), &pod) returns err == nil.
DelGetPodFound(id) ==
    /\ inv[id].pc = "delGetPod"
    /\ podExists(GetPodNamespacedName(inv[id].pg))
    /\ inv' = [inv EXCEPT ![id] = [@ EXCEPT !.pc = "delPod"]]
    /\ UNCHANGED <<records, pods, faults, win>>
    /\ obs' = [obs EXCEPT ![id] = ObsCall(@, "get pod")]

\* ... returns not-found: the if is skipped, the finalizer is removed next.
DelGetPodNotFound(id) ==
    /\ inv[id].pc = "delGetPod"
    /\ ~podExists(GetPodNamespacedName(inv[id].pg))
    /\ inv' = [inv EXCEPT ![id] = [@ EXCEPT !.pc = "removeFinalizer"]]
    /\ UNCHANGED <<records, pods, faults, win>>
    /\ obs' = [obs EXCEPT ![id] = ObsCall(@, "get pod")]

\* Where deleteExternalResources goes when the Pod lookup returns an error that
\* is not not-found: err == nil is false, so the if is skipped as well.
AfterDelGetPodFail(i) == [i EXCEPT !.pc = "removeFinalizer"]

\* ... fails otherwise.
DelGetPodFail(id) ==
    /\ inv[id].pc = "delGetPod"
    /\ CanFault
    /\ faults' = faults + 1
    /\ inv' = [inv EXCEPT ![id] = AfterDelGetPodFail(@)]
    /\ win' = [win EXCEPT ![id] =
                  IF inv'[id].pc = "idle" THEN WinReturn(WinFault(@))
                                          ELSE WinFault(@)]
    /\ UNCHANGED <<records, pods>>
    /\ obs' = [obs EXCEPT ![id] = ObsFailedCall(@, "get pod")]

\* r.Delete(ctx, &pod, foreground) succeeds.
DelPodOk(id) ==
    /\ inv[id].pc = "delPod"
    /\ podExists(GetPodNamespacedName(inv[id].pg))
    /\ pods' = [pods EXCEPT ![GetPodNamespacedName(inv[id].pg)] = PodDeleted(@)]
    /\ inv' = [inv EXCEPT ![id] = [@ EXCEPT !.pc = "removeFinalizer"]]
    /\ UNCHANGED <<records, faults, win>>
    /\ obs' = [obs EXCEPT ![id] = ObsCall(@, "delete pod")]

\* DelPodFail that swallows the error of r.Delete.
DelPodFail_NoError(id) ==
    /\ inv[id].pc = "delPod"
    /\ ~podExists(GetPodNamespacedName(inv[id].pg)) \/ CanFault
    /\ faults' = IF podExists(GetPodNamespacedName(inv[id].pg))
                   THEN faults + 1 ELSE faults
    /\ inv' = [inv EXCEPT ![id] = Return(@, Result(0, FALSE), "delPodFail")]
    /\ win' = [win EXCEPT ![id] = WinReturn(WinFault(@))]
    /\ UNCHANGED <<records, pods>>
    /\ obs' = [obs EXCEPT ![id] = ObsFailedCall(@, "delete pod")]

\* ... fails (not-found included): return err.
DelPodFail(id) ==
    /\ inv[id].pc = "delPod"
    /\ ~podExists(GetPodNamespacedName(inv[id].pg)) \/ CanFault
    /\ faults' = IF podExists(GetPodNamespacedName(inv[id].pg))
                   THEN faults + 1 ELSE faults
    /\ inv' = [inv EXCEPT ![id] = Return(@, Result(0, TRUE), "delPodFail")]
    /\ win' = [win EXCEPT ![id] = WinReturn(WinFault(@))]
    /\ UNCHANGED <<records, pods>>
    /\ obs' = [obs EXCEPT ![id] = ObsFailedCall(@, "delete pod")]

\* RemoveFinalizerOk that clears the whole finalizer list, not only its token.
RemoveFinalizerOk_ClearsAll(id) ==
    /\ inv[id].pc = "removeFinalizer"
    /\ WriteAccepted(id)
    /\ LET pg == [inv[id].pg EXCEPT !.finalizers = {}] IN
          /\ records' = [records EXCEPT ![id] =
                            Settle([@ EXCEPT !.finalizers = pg.finalizers])]
          /\ inv' = [inv EXCEPT ![id] =
                        Return([@ EXCEPT !.pg = pg], Result(0, FALSE), "released")]
    /\ win' = [win EXCEPT ![id] = WinReturn(@)]
    /\ UNCHANGED <<pods, faults>>
    /\ obs' = [obs EXCEPT ![id] = ObsCall(@, "update pg")]

\* controllerutil.RemoveFinalizer and r.Update(ctx, pg) succeeds.
RemoveFinalizerOk(id) ==
    /\ inv[id].pc = "removeFinalizer"
    /\ WriteAccepted(id)
    /\ LET pg == RemoveFinalizer(inv[id].pg, postgresqlFinalizer) IN
          /\ records' = [records EXCEPT ![id] =
                            Settle([@ EXCEPT !.finalizers = pg.finalizers])]
          /\ inv' = [inv EXCEPT ![id] =
                        Return([@ EXCEPT !.pg = pg], Result(0, FALSE), "released")]
    /\ win' = [win EXCEPT ![id] = WinReturn(@)]
    /\ UNCHANGED <<pods, faults>>
    /\ obs' = [obs EXCEPT ![id] = ObsCall(@, "update pg")]

\* ... r.Update fails: return err.
RemoveFinalizerFail(id) ==
    /\ inv[id].pc = "removeFinalizer"
    /\ ~WriteAccepted(id) \/ CanFault
    /\ faults' = IF WriteAccepted(id) THEN faults + 1 ELSE faults
    /\ inv' = [inv EXCEPT ![id] = Return(@, Result(0, TRUE), "releaseFail")]
    /\ win' = [win EXCEPT ![id] = WinReturn(WinFault(@))]
    /\ UNCHANGED <<records, pods>>
    /\ obs' = [obs EXCEPT ![id] = ObsFailedCall(@, "update pg")]

----------------------------------------------------------------------------
(* Everybody else *)

\* k8sClient.Delete(ctx, &pg): the deletion marker is set, or the record goes
\* at once when nothing holds it.
UserDelete(id) ==
    /\ records[id].exists
    /\ ~records[id].deleting
    /\ records' = [records EXCEPT ![id] = Settle([@ EXCEPT !.deleting = TRUE])]
    /\ inv' = [inv EXCEPT ![id] = MarkStale(@)]
    /\ win' = [win EXCEPT ![id] = WinOther(@)]
    /\ UNCHANGED <<pods, faults>>
    /\ obs' = [obs EXCEPT ![id] = ObsDisturbed(@)]

\* The controller owning the other finalizer finishes its own cleanup.
OtherFinalizerReleased(id) ==
    /\ records[id].exists
    /\ records[id].deleting
    /\ otherFinalizer \in records[id].finalizers
    /\ records' = [records EXCEPT ![id] =
                      Settle([@ EXCEPT !.finalizers = @ \ {otherFinalizer}])]
    /\ inv' = [inv EXCEPT ![id] = MarkStale(@)]
    /\ UNCHANGED <<pods, faults, win>>
    /\ obs' = [obs EXCEPT ![id] = ObsDisturbed(@)]

\* The kubelet reports a new phase of the Pod.
PodPhaseChanges(id) ==
    /\ podExists(id)
    /\ \E p \in PodPhases \ {pods[id].phase} :
          pods' = [pods EXCEPT ![id] = [@ EXCEPT !.phase = p]]
    /\ UNCHANGED <<records, inv, faults, win>>
    /\ obs' = [obs EXCEPT ![id] = ObsDisturbed(@)]

\* An image the reconciler would not have put into the Pod.
otherImage == "postgres:15"

\* Somebody edits the image of the Pod's container, the one field of a running
\* Pod's spec that the API server lets be changed.
PodImageChanged(id) ==
    /\ podExists(id)
    /\ \E img \in {postgresImage, otherImage} \ {pods[id].spec.image} :
          pods' = [pods EXCEPT ![id] = [@ EXCEPT !.spec.image = img]]
    /\ UNCHANGED <<records, inv, faults, win>>
    /\ obs' = [obs EXCEPT ![id] = ObsDisturbed(@)]

\* The Pod is deleted by somebody other than the reconciler.
PodDeletedOutOfBand(id) ==
    /\ podExists(id)
    /\ pods' = [pods EXCEPT ![id] = PodDeleted(@)]
    /\ win' = [win EXCEPT ![id] = WinOther(@)]
    /\ UNCHANGED <<records, inv, faults>>
    /\ obs' = [obs EXCEPT ![id] = ObsDisturbed(@)]

----------------------------------------------------------------------------
(* Specifications *)

\* One store call of the invocation for id, with one of its outcomes.
Step(id) ==
    \/ GetPgOk(id) \/ GetPgNotFound(id) \/ GetPgFail(id)
    \/ GetPodFound(id) \/ GetPodNotFound(id) \/ GetPodFail(id)
    \/ CreatePodOk(id) \/ CreatePodFail(id)
    \/ StatusUpdateOk(id) \/ StatusUpdateFail(id)
    \/ RegisterSkip(id) \/ RegisterOk(id) \/ RegisterFail(id)
    \/ DelGetPodFound(id) \/ DelGetPodNotFound(id) \/ DelGetPodFail(id)
    \/ DelPodOk(id) \/ DelPodFail(id)
    \/ RemoveFinalizerOk(id) \/ RemoveFinalizerFail(id)

Environment(id) ==
    \/ UserDelete(id)
    \/ OtherFinalizerReleased(id)
    \/ PodPhaseChanges(id)
    \/ PodImageChanged(id)
    \/ PodDeletedOutOfBand(id)

Next ==
    \E id \in MainIds :
        \/ Start(id)
        \/ Abandon(id)
        \/ Step(id)
        \/ Environment(id)

Spec == Init /\ [][Next]_vars

\* The dispatcher re-invokes Reconcile (event or requeue), an invocation that is
\* not abandoned runs on, and the other controller finishes its cleanup.
Fairness ==
    \A id \in MainIds :
        /\ WF_vars(Start(id))
        /\ WF_vars(Step(id))
        /\ WF_vars(OtherFinalizerReleased(id))

FairSpec == Spec /\ Fairness

----------------------------------------------------------------------------
(* Claims *)

Active(id) == records[id].exists /\ ~records[id].deleting

HasToken(id) == ContainsFinalizer(records[id], postgresqlFinalizer)

\* C1. Finalizer-before-removal ordering: a step that takes the controller's
\* token off the stored record (by rewriting the record, or with the record's
\* removal) is taken only when no child exists at that identity.
C1_TokenRemovedOnlyWhenChildAbsent ==
    [][ \A id \in Ids :
          (records[id].exists /\ HasToken(id)
             /\ ~(records'[id].exists
                  /\ ContainsFinalizer(records'[id], postgresqlFinalizer)))
          => (pods[id].n = 0 /\ pods'[id].n = 0) ]_vars

\* C2. Finalizer registration precedes child ownership: whenever a child exists
\* for a non-terminating record, the stored record carries the controller's token.
C2_ChildOfActiveRecordImpliesToken ==
    \A id \in Ids : (Active(id) /\ podExists(id)) => HasToken(id)

\* C3. Cleanup liveness: once deletion is requested for a record that carries
\* the token and has a child, eventually the child is absent and the record is
\* removed, and both stay so.
C3_CleanupLiveness ==
    \A id \in MainIds :
        (records[id].exists /\ records[id].deleting /\ HasToken(id) /\ podExists(id))
          ~> [](~podExists(id) /\ ~records[id].exists)

\* C4. Idempotent creation: no identity ever holds more than one child; a
\* create is only ever pending in an invocation whose lookup found no child;
\* and two successive invocations that began on an Active record without a
\* child, with nobody else deleting the child or the record, create at most one
\* child, and exactly one, which is there at the end, when no store call failed.
C4_IdempotentCreation ==
    \A id \in Ids :
        /\ pods[id].n <= 1
        /\ inv[id].pc = "createPod" => ~inv[id].podFound
        /\ (win[id].on /\ win[id].quiet) => win[id].creates <= 1
        /\ (win[id].on /\ win[id].quiet /\ win[id].nofault /\ win[id].runs = 2)
             => (win[id].creates = 1 /\ pods[id].n = 1)

\* Two invocations ran back to back on a record that had no child, undisturbed:
\* one create, one child.
C4_Witness ==
    /\ win["pg1"].on /\ win["pg1"].runs = 2
    /\ win["pg1"].quiet /\ win["pg1"].nofault
    /\ win["pg1"].creates = 1
    /\ pods["pg1"].n = 1
    /\ inv["pg1"].podFound

\* C5. Create-on-absence postcondition: when an invocation that began on an
\* Active record without a child has returned, no store call failed and nobody
\* else deleted the child or the record, then the child exists and the stored
\* status.phase is Pending.
C5_CreateOnAbsencePostcondition ==
    \A id \in Ids :
        (win[id].on /\ win[id].runs = 1 /\ win[id].quiet /\ win[id].nofault
           /\ inv[id].pc = "idle")
        => (podExists(id) /\ records[id].status.Phase = PgPending)

\* C6. Repair liveness: whenever an Active record has no child, a child exists
\* again later, unless the record stops being Active.
C6_RepairLiveness ==
    \A id \in MainIds :
        (Active(id) /\ ~podExists(id)) ~> (podExists(id) \/ ~Active(id))

\* The child of an Active record was deleted out of band and created again.
C6_Witness ==
    /\ Active("pg1") /\ podExists("pg1")
    /\ win["pg1"].on /\ ~win["pg1"].quiet /\ win["pg1"].creates = 2

\* C7. Status follows a running child: when an invocation on an Active record
\* has observed the child in phase Running and its status write succeeded, the
\* stored status.phase is Up.
C7_RunningChildStoresUp ==
    \A id \in Ids :
        (Active(id) /\ inv[id].statusOk /\ inv[id].podPhase = "Running")
        => records[id].status.Phase = PgUp

\* The table of the status derivation, as the specification gives it.
StatusTable(observed) ==
    IF observed = "Pending" THEN PgPending
    ELSE IF observed = "Running" THEN PgUp
    ELSE PgFailed

\* C8. Status totality: the phase an invocation derives from the child phase it
\* observed is the table's value, one of {Pending, Up, Failed}, with every phase
\* but Pending and Running giving Failed; and the stored status.phase is unset
\* or one of {Pending, Up, Failed}; each of the three is derived from some phase.
C8_StatusTotality ==
    /\ { DerivePhase(p) : p \in PodPhases } = PgPhases
    /\ \A id \in Ids :
        /\ records[id].status.Phase \in PgPhases \cup {Unset}
        /\ inv[id].pg.status.Phase \in PgPhases \cup {Unset}
        /\ inv[id].pc \in {"registerFinalizer", "delGetPod", "delPod", "removeFinalizer"}
             => /\ inv[id].pg.status.Phase = StatusTable(inv[id].podPhase)
                /\ inv[id].pg.status.Phase \in PgPhases

\* An invocation derived Failed from a child phase the switch does not name.
C8_Witness ==
    /\ inv["pg1"].pc = "registerFinalizer"
    /\ inv["pg1"].podPhase \in {"Succeeded", "Failed", "Unknown", Unset}
    /\ inv["pg1"].pg.status.Phase = PgFailed

\* C9. Status is a projection of the last observation: after a status write that
\* succeeded, the stored status.phase is the table's value for the child phase
\* the invocation observed.
C9_StoredStatusIsProjection ==
    \A id \in Ids :
        (records[id].exists /\ inv[id].statusOk)
        => records[id].status.Phase = StatusTable(inv[id].podPhase)

\* C10. Creation failure does not starve status reporting: when an invocation has
\* returned because the create of the absent child failed, the stored
\* status.phase is Failed.
C10_CreateFailureStoresFailed ==
    \A id \in Ids :
        (records[id].exists /\ inv[id].pc = "idle" /\ inv[id].exit = "createFail")
        => records[id].status.Phase = PgFailed

\* The step is the invocation of id issuing the store call `call`.
Issues(id, call) == obs'[id].calls = Append(obs[id].calls, call)

\* C11. Creation failure is reported as a requeue, not an error: a step in which
\* the create of the child is issued and no child comes to exist returns
\* (requeue after 5 s, no error) and leaves the Pods as they were.
C11_CreateFailureIsRequeue ==
    [][ \A id \in Ids :
          (Issues(id, "create pod") /\ pods'[id].n = pods[id].n)
          => /\ inv'[id].pc = "idle"
             /\ inv'[id].res = Result(RequeueSeconds, FALSE)
             /\ pods' = pods ]_vars

\* An invocation has returned a requeue after its create failed; no child exists.
C11_Witness ==
    /\ inv["pg1"].pc = "idle"
    /\ obs["pg1"].calls = <<"get pg", "get pod", "create pod">>
    /\ inv["pg1"].res = Result(RequeueSeconds, FALSE)
    /\ ~podExists("pg1")

\* The last invocation of id has returned, it ran undisturbed (no store call
\* failed, nobody else wrote to the store since it began), and it began on `start`.
ReturnedUndisturbed(id) ==
    /\ inv[id].pc = "idle"
    /\ obs[id].clean
    /\ obs[id].calls # <<>>

StartedTerminating(id) ==
    /\ obs[id].start.rec.exists
    /\ obs[id].start.rec.deleting

StartedWithToken(id) == ContainsFinalizer(obs[id].start.rec, postgresqlFinalizer)

StartedWithChild(id) == obs[id].start.pod.n > 0

\* C12. Scenario 4 in one invocation: an undisturbed invocation that began on a
\* terminating record carrying the token, with its child present, issues the
\* child delete before the token-removal write, returns (no requeue, no error),
\* and leaves the child absent and the stored record without the token.
C12_Scenario4SingleInvocation ==
    \A id \in Ids :
        (ReturnedUndisturbed(id) /\ StartedTerminating(id)
           /\ StartedWithToken(id) /\ StartedWithChild(id))
        => /\ obs[id].calls = << "get pg", "get pod", "update status",
                                "get pod", "delete pod", "update pg" >>
           /\ inv[id].res = Result(0, FALSE)
           /\ ~podExists(id)
           /\ ~HasToken(id)

\* Scenario 4 has run: the child is gone and the record has been released.
C12_Witness ==
    /\ ReturnedUndisturbed("pg1") /\ StartedTerminating("pg1")
    /\ StartedWithToken("pg1") /\ StartedWithChild("pg1")
    /\ ~podExists("pg1")
    /\ ~records["pg1"].exists

C14_AbsentRecordIsNoOp ==
    [][ \A id \in Ids :
          (Issues(id, "get pg") /\ ~records[id].exists /\ faults' = faults)
          => /\ inv'[id].pc = "idle"
             /\ inv'[id].res = Result(0, FALSE)
             /\ obs'[id].calls = <<"get pg">>
             /\ records' = records
             /\ pods' = pods ]_vars

\* An invocation found no record and returned, although a child exists.
C14_Witness ==
    /\ inv["pg1"].pc = "idle"
    /\ inv["pg1"].exit = "noRecord"
    /\ obs["pg1"].calls = <<"get pg">>
    /\ ~records["pg1"].exists
    /\ podExists("pg1")

\* The last invocation of id fetched the record and has returned.
ReturnedOnRecord(id) ==
    /\ inv[id].pc = "idle"
    /\ inv[id].exit \notin {"none", "abandoned"}
    /\ inv[id].pg.name = id

CallsOf(id) == { obs[id].calls[k] : k \in DOMAIN obs[id].calls }

\* C15. Requeue directive: an invocation that fetched a non-terminating record
\* and returned without error returned a requeue delay of 5 seconds, whether the
\* child was found, created or failed to be created; an invocation that took
\* the terminating branch returned no requeue delay.
C15_RequeueDirective ==
    \A id \in Ids :
        ReturnedOnRecord(id) =>
          /\ (~objectDeleting(inv[id].pg) /\ ~inv[id].res.err)
               => inv[id].res.requeueAfter = RequeueSeconds
          /\ (objectDeleting(inv[id].pg) /\ "update status" \in CallsOf(id))
               => inv[id].res.requeueAfter = 0

\* An invocation created the child, registered the token and returned the requeue.
C15_Witness ==
    /\ ReturnedOnRecord("pg1")
    /\ obs["pg1"].calls =
         <<"get pg", "get pod", "create pod", "update status", "update pg">>
    /\ inv["pg1"].res = Result(RequeueSeconds, FALSE)

\* The invocation of id is inside deleteExternalResources of a fetched
\* terminating record that carries the token.
InDeletionProtocol(id) ==
    /\ inv[id].pc \in {"delPod", "removeFinalizer"}
    /\ objectDeleting(inv[id].pg)
    /\ ContainsFinalizer(inv[id].pg, postgresqlFinalizer)

\* C16. Deletion-protocol failures are retryable: on a terminating record
\* carrying the token, a child deletion or a token-removal write that fails
\* (the call is issued and the store is left as it was) makes Reconcile return
\* the error, and the stored record is still present, still terminating and
\* still carries the token.
C16_DeletionFailureRetryable ==
    [][ \A id \in Ids :
          ( /\ InDeletionProtocol(id)
            /\ Issues(id, "delete pod") \/ Issues(id, "update pg")
            /\ records' = records /\ pods' = pods )
          => /\ inv'[id].pc = "idle"
             /\ inv'[id].res = Result(0, TRUE)
             /\ records'[id].exists
             /\ records'[id].deleting
             /\ ContainsFinalizer(records'[id], postgresqlFinalizer) ]_vars

\* The deletion of a present child failed and the invocation has returned.
C16_Witness ==
    /\ inv["pg1"].pc = "idle"
    /\ inv["pg1"].exit = "delPodFail"
    /\ ContainsFinalizer(inv["pg1"].pg, postgresqlFinalizer)
    /\ inv["pg1"].res.err
    /\ podExists("pg1")
    /\ records["pg1"].deleting /\ HasToken("pg1")

\* C17. Finalizer presence: once an invocation that fetched a non-terminating
\* record has returned without error, the stored record carries the token for
\* as long as it is not terminating.
C17_TokenAfterSuccessfulReconcile ==
    \A id \in Ids :
        ( /\ ReturnedOnRecord(id)
          /\ ~objectDeleting(inv[id].pg)
          /\ ~inv[id].res.err
          /\ Active(id) )
        => HasToken(id)

\* The copy of a stored record that r.Get hands to Reconcile.
Fetched(id, rec) ==
    [ name |-> id, deleting |-> rec.deleting, finalizers |-> rec.finalizers,
      status |-> rec.status, spec |-> rec.spec ]

\* One invocation of Reconcile for id from store state st, run to its return
\* with every store call succeeding and nobody else writing.
Run(id, st) ==
    IF ~st.rec.exists
      THEN st
      ELSE
        LET pg     == Fetched(id, st.rec)
            pod1   == IF st.pod.n > 0
                        THEN st.pod
                        ELSE PodCreated(st.pod, createPodSpec(pg))
            status == DecodeStatus(EncodeStatus(
                          [pg.status EXCEPT !.Phase = DerivePhase(pod1.phase)]))
            rec1   == [st.rec EXCEPT !.status = status]
        IN  IF ~objectDeleting(pg)
              THEN Store([rec1 EXCEPT !.finalizers =
                              AddFinalizer(pg, postgresqlFinalizer).finalizers],
                         pod1)
              ELSE IF ContainsFinalizer(pg, postgresqlFinalizer)
                     THEN Store(Settle([rec1 EXCEPT !.finalizers =
                                  RemoveFinalizer(pg, postgresqlFinalizer).finalizers]),
                                PodDeleted(pod1))
                     ELSE Store(rec1, pod1)

\* What the re-entrancy property compares of a store state.
EndState(st) ==
    [ child      |-> st.pod.n > 0,
      phase      |-> st.rec.status.Phase,
      finalizers |-> st.rec.finalizers,
      exists     |-> st.rec.exists ]

Current(id) == Store(records[id], pods[id])

\* Run is the stepwise invocation: an invocation that returned with no failed
\* call and no foreign write in between left the store where Run puts it.
RunAgreesWithSteps ==
    \A id \in Ids :
        ReturnedUndisturbed(id)
        => EndState(Current(id)) = EndState(Run(id, obs[id].start))

\* C18. Re-entrancy: at every boundary after a store call of an invocation
\* (record fetch, child lookup, child create, status write, token write, child
\* delete), abandoning there and running a fresh invocation to completion ends
\* in the same child existence, status.phase, finalizer set and record
\* existence as one uninterrupted invocation from the invocation's start state.
C18_ReEntrancy ==
    \A id \in Ids :
        (obs[id].clean /\ obs[id].calls # <<>>)
        => EndState(Run(id, Current(id))) = EndState(Run(id, obs[id].start))

\* The invocation of id works on a fetched non-terminating record whose child
\* is in the store.
OnActiveWithChild(id) ==
    /\ inv[id].pc \notin {"idle", "getPg"}
    /\ ~objectDeleting(inv[id].pg)
    /\ podExists(id)

\* C19. No in-place repair: a store call that Reconcile issues on a
\* non-terminating record whose child is present is no create and no delete of
\* the child (the code has no update of the child), and it leaves the child as
\* it is, whatever the child's phase and spec.
C19_NoInPlaceRepair ==
    [][ \A id \in Ids :
          (OnActiveWithChild(id) /\ obs'[id].calls # obs[id].calls)
          => /\ ~Issues(id, "create pod")
             /\ ~Issues(id, "delete pod")
             /\ pods'[id] = pods[id] ]_vars

\* An undisturbed invocation found a Failed child with a foreign image, returned
\* the requeue, and the child is as it was found.
C19_Witness ==
    /\ ReturnedUndisturbed("pg1")
    /\ inv["pg1"].podFound
    /\ ~objectDeleting(inv["pg1"].pg)
    /\ inv["pg1"].res = Result(RequeueSeconds, FALSE)
    /\ obs["pg1"].start.pod.phase = "Failed"
    /\ obs["pg1"].start.pod.spec # createPodSpec(inv["pg1"].pg)
    /\ pods["pg1"] = obs["pg1"].start.pod

\* registerFinalizer has a token to add to the copy it was given.
MustRegister(i) ==
    ~objectDeleting(i.pg) /\ ~ContainsFinalizer(i.pg, postgresqlFinalizer)

\* The invocation of id leaves registerFinalizer by its own step.
LeavesRegister(id) ==
    /\ inv[id].pc = "registerFinalizer"
    /\ inv'[id].pc # "registerFinalizer"
    /\ inv'[id].exit # "abandoned"

\* C20. Finalizer registration rule: registerFinalizer writes the record exactly
\* when the fetched record is not terminating and does not carry the token, and
\* an accepted write adds exactly the token; the token is never added to a
\* stored record whose deletion marker is set, and by no other step.
C20_RegistrationRule ==
    [][ \A id \in Ids :
          /\ LeavesRegister(id)
               => /\ Issues(id, "update pg") <=> MustRegister(inv[id])
                  /\ records'[id] # records[id]
                       => records'[id].finalizers =
                            records[id].finalizers \cup {postgresqlFinalizer}
          /\ (HasToken(id)' /\ ~HasToken(id))
               => /\ inv[id].pc = "registerFinalizer"
                  /\ MustRegister(inv[id])
                  /\ ~records[id].deleting
                  /\ ~records'[id].deleting ]_vars

\* An undisturbed invocation found the child, had no token to start with, wrote
\* the token and returned.
C20_Witness ==
    /\ ReturnedUndisturbed("pg1")
    /\ StartedWithChild("pg1")
    /\ ~StartedWithToken("pg1")
    /\ obs["pg1"].calls = <<"get pg", "get pod", "update status", "update pg">>
    /\ Active("pg1") /\ HasToken("pg1")

----------------------------------------------------------------------------
(* Two identities *)

\* The password each record is created with: the test's for pg1, another one
\* for the second record.
PasswordOf == [id \in Ids |-> IF id \in MainIds THEN "password1!" ELSE "password2!"]

\* Two records of the kind; the controller is dispatched for each of them. One
\* transient failure of a store call is left in the budget.
PairInit ==
    /\ records = [id \in Ids |->
                    [NewRecord(id, {}) EXCEPT !.spec.Password = PasswordOf[id]]]
    /\ pods = [id \in Ids |-> NoPod]
    /\ inv = [id \in Ids |-> Idle]
    /\ faults = MaxFaults - 1
    /\ win = [id \in Ids |-> NoWindow]
    /\ obs = [id \in Ids |-> NoObs]

\* Invocations for different identities run side by side, one store call at a
\* time; the user deletes records and Pods go away.
PairNext ==
    \E id \in Ids :
        \/ Start(id)
        \/ Step(id)
        \/ UserDelete(id)
        \/ PodDeletedOutOfBand(id)

PairSpec == PairInit /\ [][PairNext]_vars

\* Something at identity id changes in this step.
Touches(id) ==
    \/ records'[id] # records[id]
    \/ pods'[id] # pods[id]
    \/ inv'[id] # inv[id]
    \/ obs'[id] # obs[id]

\* C21. Isolation between identities: a step for one identity leaves the
\* record, the child and the invocation of every other identity as they were,
\* and with invocations of two identities interleaved at store-call granularity
\* an invocation that returned with no failed call and no foreign write at its
\* own identity left that identity where the invocation run alone puts it.
C21_IdentityIsolation ==
    /\ [][ \A id \in Ids : \A other \in Ids \ {id} :
             Touches(id) => ~Touches(other) ]_vars
    /\ [](\A id \in Ids :
             ReturnedUndisturbed(id)
             => EndState(Current(id)) = EndState(Run(id, obs[id].start)))

\* Both invocations are in flight: the one for pg1 is about to register its
\* token, the one for pg2 is about to delete its Pod, and both Pods exist.
C21_Witness ==
    /\ inv["pg1"].pc = "registerFinalizer" /\ obs["pg1"].clean
    /\ inv["pg2"].pc = "delPod" /\ obs["pg2"].clean
    /\ podExists("pg1") /\ podExists("pg2")

\* C22. No unrecoverable state: with the transient failures over (their number
\* is bounded) and Reconcile re-invoked fairly, an Active record comes to have
\* its child and the token unless it stops being Active, and a Terminating
\* record comes to be removed with its child absent.
C22_NoUnrecoverableState ==
    \A id \in MainIds :
        /\ Active(id) ~> (~Active(id) \/ (podExists(id) /\ HasToken(id)))
        /\ (records[id].exists /\ records[id].deleting)
             ~> (~records[id].exists /\ ~podExists(id))

\* Records as createPodSpec may be handed them: every name and password of the
\* model, with and without deletion marker, tokens and stored phase.
PgInputs ==
    [ name       : Ids,
      deleting   : BOOLEAN,
      finalizers : SUBSET {postgresqlFinalizer, otherFinalizer},
      status     : [Phase : PgPhases \cup {Unset}, Active : {Unset}],
      spec       : [ DefaultUser : {"pguser"},
                     Password    : { PasswordOf[id] : id \in Ids } ] ]

\* The value of the environment variable called name in a child spec.
EnvValue(podSpec, name) ==
    LET k == CHOOSE j \in DOMAIN podSpec.env : podSpec.env[j][1] = name
    IN  podSpec.env[k][2]

C24_NoCreateDuringTeardown ==
    [][ \A id \in Ids :
          Issues(id, "create pod") => ~objectDeleting(inv[id].pg) ]_vars

\* The invocation of id works on a fetched terminating record without the token.
OnReleasedRecord(id) ==
    /\ inv[id].pc \notin {"idle", "getPg"}
    /\ objectDeleting(inv[id].pg)
    /\ ~ContainsFinalizer(inv[id].pg, postgresqlFinalizer)

\* C25. Once the token is absent from a terminating record that is still in the
\* store, an invocation for it takes no action: its store calls create no
\* child, delete no child and write nothing to the record, and leave child and
\* record as they are.
C25_NoActionOnceReleased ==
    [][ \A id \in Ids :
          (OnReleasedRecord(id) /\ obs'[id].calls # obs[id].calls)
          => /\ Issues(id, "get pod")
             /\ pods'[id] = pods[id]
             /\ records'[id] = records[id] ]_vars

\* C26. Not-found on delete is success: when the child has gone between the
\* lookup and the delete call of the deletion protocol, the delete that reports
\* not-found does not end the invocation with an error; the invocation goes on
\* to remove the token.
C26_DeleteNotFoundIsSuccess ==
    [][ \A id \in Ids :
          ( /\ inv[id].pc = "delPod"
            /\ ~podExists(GetPodNamespacedName(inv[id].pg))
            /\ Issues(id, "delete pod") )
          => /\ inv'[id].pc = "removeFinalizer"
             /\ ~inv'[id].res.err ]_vars

\* The locals of the invocation after a status write that succeeded.
AfterStatusWritten(i) ==
    [WithDerivedStatus(i) EXCEPT !.pc = "registerFinalizer", !.statusOk = TRUE]

\* C27. Status write is best-effort: a status write that fails leaves the store
\* as it was and the invocation exactly where a successful write leaves it, at
\* finalizer registration with the same locals, so the later steps and the
\* result are those of a success; and every status write sends the phase
\* recomputed from the child phase this invocation observed.
C27_StatusWriteBestEffort ==
    [][ \A id \in Ids :
          (inv[id].pc = "statusUpdate" /\ Issues(id, "update status"))
          => /\ inv'[id].pg.status.Phase = DerivePhase(inv[id].podPhase)
             /\ ~inv'[id].statusOk
                  => /\ inv'[id] = [AfterStatusWritten(inv[id])
                                      EXCEPT !.statusOk = FALSE]
                     /\ records' = records
                     /\ pods' = pods ]_vars

\* The status write of an invocation that created the child failed; the
\* invocation went on to register the token and returned the requeue.
C27_Witness ==
    /\ inv["pg1"].pc = "idle"
    /\ ~inv["pg1"].statusOk
    /\ obs["pg1"].calls =
         <<"get pg", "get pod", "create pod", "update status", "update pg">>
    /\ inv["pg1"].res = Result(RequeueSeconds, FALSE)
    /\ Active("pg1") /\ HasToken("pg1")

\* The record fetch or the first child lookup of id fails in this step with an
\* error other than not-found.
LookupFails(id) ==
    /\ inv[id].pc \in {"getPg", "getPod"}
    /\ Issues(id, "get pg") \/ Issues(id, "get pod")
    /\ faults' = faults + 1

\* C28. Lookup errors abort without effect: when the record fetch or the first
\* child lookup fails with an error other than not-found, Reconcile returns
\* the error, the invocation has issued nothing but its lookups (no create, no
\* status write, no finalizer write, no delete), and no lookup changes the store.
C28_LookupErrorAborts ==
    [][ \A id \in Ids :
          /\ LookupFails(id)
               => /\ inv'[id].pc = "idle"
                  /\ inv'[id].res = Result(0, TRUE)
                  /\ obs'[id].calls \in {<<"get pg">>, <<"get pg", "get pod">>}
          /\ (Issues(id, "get pg") \/ Issues(id, "get pod"))
               => (records' = records /\ pods' = pods) ]_vars

\* The lookup of a child that is there failed, and the invocation has returned
\* the error.
C28_Witness ==
    /\ inv["pg1"].pc = "idle"
    /\ inv["pg1"].res = Result(0, TRUE)
    /\ obs["pg1"].calls = <<"get pg", "get pod">>
    /\ Active("pg1") /\ podExists("pg1")

\* C29. No orphaned child: in every reachable state, an identity whose record
\* has been removed from the store has no child.
C29_NoOrphanedChild ==
    \A id \in Ids : ~records[id].exists => ~podExists(id)

\* The store at id is in the steady state: Active record with the token, child
\* present, stored phase equal to the table value of the child's phase.
Steady(id) ==
    /\ Active(id) /\ HasToken(id) /\ podExists(id)
    /\ records[id].status.Phase = StatusTable(pods[id].phase)

\* C30. Steady-state idempotence: from the steady state an invocation leaves
\* the store as it is; and from every state, a second invocation run right
\* after the first, with no change from outside in between, leaves the store
\* where the first put it.
C30_SteadyStateIdempotence ==
    \A id \in Ids :
        /\ Steady(id) => Run(id, Current(id)) = Current(id)
        /\ Run(id, Run(id, Current(id))) = Run(id, Current(id))

\* The store calls Reconcile and deleteExternalResources make.
EngineCalls ==
    {"get pg", "get pod", "create pod", "update status", "update pg", "delete pod"}

\* The tokens of a record that are not the controller's.
ForeignTokens(rec) == rec.finalizers \ {postgresqlFinalizer}

\* C31. Engine write footprint: a store call of an invocation is none but the
\* six the code makes (no delete of the record); it leaves the spec, the
\* deletion marker and every token but the controller's own as they are; the
\* record goes only when the write that takes the controller's token off a
\* terminating record takes the last token; and a stored status.phase changes
\* only in a step that issues the status write.
C31_EngineWriteFootprint ==
    [][ \A id \in Ids :
          /\ (inv[id].pc # "idle" /\ obs'[id].calls # obs[id].calls)
               => /\ \E call \in EngineCalls : Issues(id, call)
                  /\ records'[id].exists
                       => /\ records'[id].spec = records[id].spec
                          /\ records'[id].deleting = records[id].deleting
                          /\ ForeignTokens(records'[id]) = ForeignTokens(records[id])
                  /\ (records[id].exists /\ ~records'[id].exists)
                       => /\ Issues(id, "update pg")
                          /\ records[id].deleting
                          /\ records[id].finalizers = {postgresqlFinalizer}
          /\ ( /\ records'[id].exists
               /\ records'[id].status.Phase # records[id].status.Phase )
               => Issues(id, "update status") ]_vars

\* An undisturbed invocation took its own token off a terminating record that
\* another token still holds: the other token, the spec and the marker are as
\* they were.
C31_Witness ==
    /\ ReturnedUndisturbed("pg1")
    /\ obs["pg1"].start.rec.finalizers = {postgresqlFinalizer, otherFinalizer}
    /\ records["pg1"].exists /\ records["pg1"].deleting
    /\ records["pg1"].finalizers = {otherFinalizer}
    /\ records["pg1"].spec = obs["pg1"].start.rec.spec

====
